---------------------------- MODULE Spec2Model ----------------------------
(***************************************************************************)
(* Model of the DGS2 telemetry relay backend:                              *)
(*   storage/data.store.js      the bounded in-memory history              *)
(*   routes/sensor.routes.js    POST /data, GET /latest, GET /all          *)
(*   services/sensor.service.js handleSensorData, appendToCSVLog           *)
(*   websocket/ws.server.js     the live client set and broadcastToClients *)
(*   server.js                  start-up order                             *)
(*                                                                         *)
(* Node.js runs every callback to completion on one thread.  The variable  *)
(* pc is the position of the callback that is running: "idle" means the    *)
(* event loop is between callbacks, and only then can a new request, a     *)
(* WebSocket event or a change of a socket's readyState happen.  The POST  *)
(* /data handler is written out statement by statement so that the order   *)
(* of its calls, and the state between them, can be stated.                *)
(***************************************************************************)
EXTENDS Integers, Sequences, FiniteSets, TLC

VARIABLES
    pc,                     \* position of the running callback
    initialized,            \* dataStore.metadata.initialized
    readings,               \* dataStore.readings
    totalReadingsReceived,  \* dataStore.metadata.totalReadingsReceived
    wsServer,               \* ws.server.js: wsServer is non-null
    connectedClients,       \* ws.server.js: the Set, in insertion order
    readyState,             \* readyState of each WebSocket object
    inbox,                  \* what each client has been sent, in order
    csvLog,                 \* lines of logs/sensor_readings.csv
    sensorData,             \* the object the POST handler is working on
    todo,                   \* clients forEach has not visited yet
    successCount,           \* broadcastToClients: successCount
    failCount,              \* broadcastToClients: failCount
    res,                    \* the HTTP response in flight to the requester
    addCalls,               \* history: addReading calls since start
    arrived,                \* history: readings added since the last clear
    owed,                   \* history: per client, the readings ingested
                            \*   while it was registered and open
    dropped,                \* history: per client, the indices into owed
                            \*   of the readings whose send threw
    inboxAtEntry,           \* history: inbox when handleSensorData was entered
    faults,                 \* history: faults of the environment so far
    held                    \* the array an in-process caller of
                            \*   getAllReadings holds on to

vars == <<pc, initialized, readings, totalReadingsReceived, wsServer,
          connectedClients, readyState, inbox, csvLog, sensorData, todo,
          successCount, failCount, res, addCalls, arrived, owed,
          dropped, inboxAtEntry, faults, held>>

----------------------------------------------------------------------------
(* Bounds of the model *)

\* WebSocket objects that ever connect
MaxClients == 2
\* addReading calls in one run
MaxAppends == 3
\* data.store.js:8 sets 10000; the model scales the capacity down, and the
\* properties are checked for this capacity
MAX_READINGS == 2
\* pong replies sent in one run
MaxPongs == 1
\* faults of the environment the process survives in one run: a send that
\* throws inside a try (broadcast, pong), a write to the CSV log that fails
MaxFaults == 1

Clients == 1..MaxClients
PpbValues == {1}
\* "" stands for a falsy timestamp value, "T1" for a producer's timestamp
TimestampValues == {"", "T1"}
NOW == "NOW"


----------------------------------------------------------------------------
(* Values *)

\* Mutant: the route forgets to require humidity
requiredFieldsNoHumidity == <<"timestamp", "sensor_sn", "ppb", "temperature">>

\* sensor.routes.js:41, in the order the route lists them
requiredFields == <<"timestamp", "sensor_sn", "ppb", "temperature", "humidity">>

\* The keys of a complete reading (sensor.routes.js:25-34); the raw adc_*
\* channels are carried along untouched and are left out of the model
FieldNames == {"timestamp", "sensor_sn", "ppb", "temperature", "humidity"}

\* A request body: `has` is the set of keys present in the JSON object; the
\* values of timestamp and ppb are kept, the other values are not looked at
\* by any code of the relay.
MkBody(has, ts, ppb) ==
    [has |-> has,
     timestamp |-> IF "timestamp" \in has THEN ts ELSE "",
     ppb |-> IF "ppb" \in has THEN ppb ELSE 0]

\* The keys a producer of the model may leave out
Omittable == {"timestamp", "sensor_sn", "humidity"}

\* The bodies producers submit: complete ones with every timestamp value,
\* and incomplete ones with every choice of the keys left out
Bodies ==
    {MkBody(FieldNames, ts, ppb) : ts \in TimestampValues, ppb \in PpbValues}
    \cup {MkBody(FieldNames \ out, "T1", 1) : out \in SUBSET Omittable}

\* JavaScript null, and the absence of a reading in a message or response
NoData == [has |-> {"<null>"}, timestamp |-> "", ppb |-> 0]

SeqRange(s) == {s[i] : i \in 1..Len(s)}

\* Messages a client is sent
WelcomeMsg(n) == [type |-> "connection", clientCount |-> n, data |-> NoData]
ReadingMsg(d) == [type |-> "sensor_reading", clientCount |-> 0, data |-> d]
PongMsg == [type |-> "pong", clientCount |-> 0, data |-> NoData]

\* HTTP responses and values returned to a caller
NoRes == [kind |-> "none", status |-> 0, missing |-> <<>>, readingCount |-> 0,
          latest |-> NoData, all |-> <<>>, total |-> 0]
\* sensor.routes.js:45-48
BadRequest(missing) ==
    [NoRes EXCEPT !.kind = "post", !.status = 400, !.missing = missing]
\* sensor.routes.js:54-58
Accepted(n) == [NoRes EXCEPT !.kind = "post", !.status = 200, !.readingCount = n]
\* sensor.routes.js:59-62
ServerError == [NoRes EXCEPT !.kind = "post", !.status = 500]
\* sensor.routes.js:86-90
NotFound == [NoRes EXCEPT !.kind = "latest", !.status = 404]
LatestOk(r) == [NoRes EXCEPT !.kind = "latest", !.status = 200, !.latest = r]
\* sensor.routes.js:115-118
AllOk(rs) ==
    [NoRes EXCEPT !.kind = "all", !.status = 200, !.readingCount = Len(rs),
                  !.all = rs]
\* data.store.js:109-114
Stats(n, total) ==
    [NoRes EXCEPT !.kind = "stats", !.status = 200, !.readingCount = n,
                  !.total = total]

\* What the caller of getAllReadings holds: `arr` is the returned array as
\* the caller sees it now; `ids` names the object behind each element (the
\* number of the addReading call that stored it); `want` is a history: the
\* array as returned, with the caller's own changes applied to it.
NoHeld == [arr |-> <<>>, ids |-> <<>>, want |-> <<>>]

----------------------------------------------------------------------------
(* sensor.routes.js: validation *)

\* requiredFields.filter(field => !(field in sensorData))
Missing(body) == SelectSeq(requiredFields, LAMBDA f : f \notin body.has)

----------------------------------------------------------------------------
(* data.store.js *)

\* Mutant: the reading is put at the head (unshift for push)
PushFront(rs, reading) == <<reading>> \o rs

\* dataStore.readings.push(reading)
Push(rs, reading) == Append(rs, reading)

\* Mutant: the comparison is off by one
ShiftOffByOne(rs) == IF Len(rs) > MAX_READINGS + 1 THEN Tail(rs) ELSE rs

\* Mutant: the newest reading is dropped (pop for shift)
ShiftNewest(rs) ==
    IF Len(rs) > MAX_READINGS THEN SubSeq(rs, 1, Len(rs) - 1) ELSE rs

\* if (readings.length > MAX_READINGS) readings.shift()
Shift(rs) == IF Len(rs) > MAX_READINGS THEN Tail(rs) ELSE rs

\* Mutant: the first element is returned (readings[0])
getLatestReadingHead(rs) == IF Len(rs) = 0 THEN NoData ELSE rs[1]

\* getLatestReading: null when the array is empty, else the last element
getLatestReading(rs) == IF Len(rs) = 0 THEN NoData ELSE rs[Len(rs)]

\* getAllReadings: [...readings]
getAllReadings(rs) == rs

----------------------------------------------------------------------------
(* sensor.service.js: handleSensorData *)

\* Mutant: the broadcast is issued before the reading is stored
handleSensorDataBroadcastFirst ==
    <<"stamp", "broadcastToClients", "addReading", "appendToCSVLog", "return">>

\* The statements of handleSensorData in program order
handleSensorData ==
    <<"stamp", "addReading", "appendToCSVLog", "broadcastToClients", "return">>

\* The statement that runs after statement `label` of handleSensorData
After(label) ==
    LET i == CHOOSE k \in 1..Len(handleSensorData) : handleSensorData[k] = label
    IN  IF i < Len(handleSensorData) THEN handleSensorData[i + 1] ELSE "respond"

\* Mutant: the timestamp is set only when the key is absent
StampedOnlyIfAbsent(d) ==
    IF "timestamp" \notin d.has
    THEN [d EXCEPT !.has = @ \cup {"timestamp"}, !.timestamp = NOW]
    ELSE d

\* if (!sensorData.timestamp) sensorData.timestamp = new Date().toISOString()
Stamped(d) ==
    IF "timestamp" \notin d.has \/ d.timestamp = ""
    THEN [d EXCEPT !.has = @ \cup {"timestamp"}, !.timestamp = NOW]
    ELSE d


----------------------------------------------------------------------------
(* Start-up: server.js *)

Init ==
    /\ pc = "boot"
    /\ initialized = "null"
    /\ readings = <<>>
    /\ totalReadingsReceived = 0
    /\ wsServer = FALSE
    /\ connectedClients = <<>>
    /\ readyState = [c \in Clients |-> "NEW"]
    /\ inbox = [c \in Clients |-> <<>>]
    /\ csvLog = <<>>
    /\ sensorData = NoData
    /\ todo = <<>>
    /\ successCount = 0
    /\ failCount = 0
    /\ res = NoRes
    /\ addCalls = 0
    /\ arrived = <<>>
    /\ owed = [c \in Clients |-> <<>>]
    /\ dropped = [c \in Clients |-> {}]
    /\ inboxAtEntry = [c \in Clients |-> <<>>]
    /\ faults = 0
    /\ held = NoHeld

storeVars == <<readings, totalReadingsReceived, initialized>>
hubVars == <<wsServer, connectedClients, readyState, inbox>>
loopVars == <<todo, successCount, failCount>>
histVars == <<addCalls, arrived, owed, dropped, inboxAtEntry, faults>>

\* server.js:27 initializeStorage()
InitializeStorage ==
    /\ pc = "boot"
    /\ initialized' = NOW
    /\ pc' = "setupWebSocket"
    /\ UNCHANGED <<readings, totalReadingsReceived, hubVars, csvLog, sensorData,
                   loopVars, res, histVars>>
    /\ UNCHANGED held

\* server.js:52 setupWebSocket(server), then server.listen
SetupWebSocket ==
    /\ pc = "setupWebSocket"
    /\ wsServer' = TRUE
    /\ pc' = "idle"
    /\ UNCHANGED <<storeVars, connectedClients, readyState, inbox, csvLog,
                   sensorData, loopVars, res, histVars>>
    /\ UNCHANGED held

----------------------------------------------------------------------------
(* POST /api/sensor/data *)

\* Mutant: the body is stored before it is validated
PostDataRejectAfterStore(body) ==
    /\ pc = "idle"
    /\ Len(Missing(body)) > 0
    /\ sensorData' = body
    /\ readings' = Shift(Push(readings, body))
    /\ arrived' = Append(arrived, body)
    /\ res' = BadRequest(Missing(body))
    /\ pc' = "respond"
    /\ UNCHANGED <<totalReadingsReceived, initialized, hubVars, csvLog,
                   loopVars, addCalls, owed, dropped, inboxAtEntry, faults,
                   held>>

\* sensor.routes.js:38-49: a body with a required key missing is answered 400
PostDataReject(body) ==
    /\ pc = "idle"
    /\ Len(Missing(body)) > 0
    /\ sensorData' = body
    /\ res' = BadRequest(Missing(body))
    /\ pc' = "respond"
    /\ UNCHANGED <<storeVars, hubVars, csvLog, loopVars, histVars>>
    /\ UNCHANGED held

\* Mutant: no try/catch in the route and no error handler: the exception
\* leaves the request and ends the process
PostDataThrowsUncaught ==
    /\ pc = "idle"
    /\ pc' = "crashed"
    /\ UNCHANGED <<storeVars, hubVars, csvLog, sensorData, loopVars, res,
                   histVars, held>>

\* A request whose body is not a JSON object.  Either express.json() fails
\* to parse it and the error handler answers (server.js:31, 59-63), or
\* req.body is not an object and `field in sensorData` throws inside the
\* route's try (sensor.routes.js:42, 59-62).  Both answer 500; there is no
\* sensorData object.
PostDataThrows ==
    /\ pc = "idle"
    /\ res' = ServerError
    /\ pc' = "respond"
    /\ UNCHANGED <<storeVars, hubVars, csvLog, sensorData, loopVars, histVars,
                   held>>

\* sensor.routes.js:38-52: otherwise handleSensorData(sensorData) is entered
PostDataAccept(body) ==
    /\ pc = "idle"
    /\ totalReadingsReceived < MaxAppends
    /\ Len(Missing(body)) = 0
    /\ sensorData' = body
    /\ pc' = handleSensorData[1]
    /\ inboxAtEntry' = inbox
    /\ UNCHANGED <<storeVars, hubVars, csvLog, loopVars, res, addCalls, arrived,
                   owed, dropped, faults>>
    /\ UNCHANGED held

\* sensor.service.js:73-75
Stamp ==
    /\ pc = "stamp"
    /\ sensorData' = Stamped(sensorData)
    /\ pc' = After("stamp")
    /\ UNCHANGED <<storeVars, hubVars, csvLog, loopVars, res, histVars>>
    /\ UNCHANGED held

RECURSIVE SumOver(_, _)
SumOver(S, f) ==
    IF S = {} THEN 0
    ELSE LET x == CHOOSE y \in S : TRUE IN f[x] + SumOver(S \ {x}, f)

IsLive(c) == c \in SeqRange(connectedClients) /\ readyState[c] = "OPEN"

\* data.store.js:37-38: push, and count the reading
AddReadingPush ==
    /\ pc = "addReading"
    /\ readings' = Push(readings, sensorData)
    /\ totalReadingsReceived' = totalReadingsReceived + 1
    /\ pc' = "shift"
    /\ addCalls' = addCalls + 1
    /\ arrived' = Append(arrived, sensorData)
    /\ owed' = [c \in Clients |->
                  IF IsLive(c) THEN Append(owed[c], sensorData) ELSE owed[c]]
    /\ UNCHANGED <<initialized, hubVars, csvLog, sensorData, loopVars, res,
                   dropped, inboxAtEntry, faults>>
    /\ UNCHANGED held

\* data.store.js:41-44: drop the oldest reading when over the capacity
AddReadingShift ==
    /\ pc = "shift"
    /\ readings' = Shift(readings)
    /\ pc' = After("addReading")
    /\ UNCHANGED <<totalReadingsReceived, initialized, hubVars, csvLog,
                   sensorData, loopVars, res, histVars>>
    /\ UNCHANGED held

\* Mutant: no try/catch in appendToCSVLog: a failed write leaves
\* handleSensorData through its catch and the route answers 500
AppendToCSVLogNoCatch ==
    /\ pc = "appendToCSVLog"
    /\ \E written \in BOOLEAN :
          IF written
          THEN /\ csvLog' = Append(csvLog, sensorData)
               /\ pc' = After("appendToCSVLog")
               /\ UNCHANGED <<faults, res>>
          ELSE /\ faults < MaxFaults
               /\ faults' = faults + 1
               /\ pc' = "respond"
               /\ res' = ServerError
               /\ UNCHANGED csvLog
    /\ UNCHANGED <<storeVars, hubVars, sensorData, loopVars, addCalls,
                   arrived, owed, dropped, inboxAtEntry, held>>

\* sensor.service.js:40-58: the write may fail; the failure is caught
AppendToCSVLog ==
    /\ pc = "appendToCSVLog"
    /\ \E written \in BOOLEAN :
          /\ ~written => faults < MaxFaults
          /\ csvLog' = IF written THEN Append(csvLog, sensorData) ELSE csvLog
          /\ faults' = IF written THEN faults ELSE faults + 1
    /\ pc' = After("appendToCSVLog")
    /\ UNCHANGED <<storeVars, hubVars, sensorData, loopVars, res, addCalls,
                   arrived, owed, dropped, inboxAtEntry>>
    /\ UNCHANGED held

\* Mutant: broadcastToClients throws when there is no WebSocket server, and
\* the route answers 500
BroadcastToClientsRaisesWithoutServer ==
    /\ pc = "broadcastToClients"
    /\ IF ~wsServer
       THEN /\ pc' = "respond"
            /\ res' = ServerError
            /\ UNCHANGED loopVars
       ELSE /\ todo' = connectedClients
            /\ successCount' = 0
            /\ failCount' = 0
            /\ pc' = "forEach"
            /\ UNCHANGED res
    /\ UNCHANGED <<storeVars, hubVars, csvLog, sensorData, histVars, held>>

\* ws.server.js broadcastToClients, sensor.service.js:213-226
BroadcastToClients ==
    /\ pc = "broadcastToClients"
    /\ IF ~wsServer
       THEN /\ pc' = After("broadcastToClients")
            /\ UNCHANGED loopVars
       ELSE /\ todo' = connectedClients
            /\ successCount' = 0
            /\ failCount' = 0
            /\ pc' = "forEach"
    /\ UNCHANGED <<storeVars, hubVars, csvLog, sensorData, res, histVars>>
    /\ UNCHANGED held

\* Mutant: no try/catch around client.send: the exception leaves forEach,
\* handleSensorData rethrows it and the route answers 500
ForEachClientNoCatch ==
    /\ pc = "forEach"
    /\ todo # <<>>
    /\ LET client == Head(todo) IN
       IF readyState[client] = "OPEN"
       THEN \E sent \in BOOLEAN :
              IF sent
              THEN /\ inbox' = [inbox EXCEPT
                                  ![client] = Append(@, ReadingMsg(sensorData))]
                   /\ successCount' = successCount + 1
                   /\ todo' = Tail(todo)
                   /\ UNCHANGED <<pc, res, failCount, dropped, faults>>
              ELSE /\ faults < MaxFaults
                   /\ faults' = faults + 1
                   /\ dropped' = [dropped EXCEPT
                                    ![client] = @ \cup {Len(owed[client])}]
                   /\ pc' = "respond"
                   /\ res' = ServerError
                   /\ UNCHANGED <<inbox, successCount, failCount, todo>>
       ELSE /\ todo' = Tail(todo)
            /\ UNCHANGED <<pc, res, inbox, successCount, failCount, dropped,
                           faults>>
    /\ UNCHANGED <<storeVars, wsServer, connectedClients, readyState,
                   csvLog, sensorData, addCalls, arrived, owed,
                   inboxAtEntry>>
    /\ UNCHANGED held

\* Mutant: readyState is not looked at before sending
ForEachClientAnyState ==
    /\ pc = "forEach"
    /\ todo # <<>>
    /\ LET client == Head(todo) IN
          /\ inbox' = [inbox EXCEPT
                         ![client] = Append(@, ReadingMsg(sensorData))]
          /\ successCount' = successCount + 1
    /\ todo' = Tail(todo)
    /\ UNCHANGED <<pc, storeVars, wsServer, connectedClients, readyState,
                   csvLog, sensorData, res, failCount, histVars>>
    /\ UNCHANGED held

\* Mutant: the loop ends at the first member that is not open
ForEachClientStopsAtClosed ==
    /\ pc = "forEach"
    /\ todo # <<>>
    /\ LET client == Head(todo) IN
       IF readyState[client] = "OPEN"
       THEN /\ inbox' = [inbox EXCEPT
                           ![client] = Append(@, ReadingMsg(sensorData))]
            /\ successCount' = successCount + 1
            /\ todo' = Tail(todo)
       ELSE /\ todo' = <<>>
            /\ UNCHANGED <<inbox, successCount>>
    /\ UNCHANGED <<pc, storeVars, wsServer, connectedClients, readyState,
                   csvLog, sensorData, res, failCount, histVars, held>>

\* Mutant: the loop waits at a member until it is open
ForEachClientAwaitsOpen ==
    /\ pc = "forEach"
    /\ todo # <<>>
    /\ readyState[Head(todo)] = "OPEN"
    /\ inbox' = [inbox EXCEPT
                   ![Head(todo)] = Append(@, ReadingMsg(sensorData))]
    /\ successCount' = successCount + 1
    /\ todo' = Tail(todo)
    /\ UNCHANGED <<pc, storeVars, wsServer, connectedClients, readyState,
                   csvLog, sensorData, res, failCount, histVars, held>>

\* Mutant: a client that is not OPEN is counted as a failure
ForEachClientCountsSkipped ==
    /\ pc = "forEach"
    /\ todo # <<>>
    /\ LET client == Head(todo) IN
       IF readyState[client] = "OPEN"
       THEN \E sent \in BOOLEAN :
              IF sent
              THEN /\ inbox' = [inbox EXCEPT
                                  ![client] = Append(@, ReadingMsg(sensorData))]
                   /\ successCount' = successCount + 1
                   /\ UNCHANGED <<failCount, dropped, faults>>
              ELSE /\ faults < MaxFaults
                   /\ faults' = faults + 1
                   /\ failCount' = failCount + 1
                   /\ dropped' = [dropped EXCEPT
                                    ![client] = @ \cup {Len(owed[client])}]
                   /\ UNCHANGED <<inbox, successCount>>
       ELSE /\ failCount' = failCount + 1
            /\ UNCHANGED <<inbox, successCount, dropped, faults>>
    /\ todo' = Tail(todo)
    /\ UNCHANGED <<pc, storeVars, wsServer, connectedClients, readyState,
                   csvLog, sensorData, res, addCalls, arrived, owed,
                   inboxAtEntry>>
    /\ UNCHANGED held

\* sensor.service.js:228-238: one visit of connectedClients.forEach
ForEachClient ==
    /\ pc = "forEach"
    /\ todo # <<>>
    /\ LET client == Head(todo) IN
       IF readyState[client] = "OPEN"
       THEN \E sent \in BOOLEAN :
              IF sent
              THEN /\ inbox' = [inbox EXCEPT
                                  ![client] = Append(@, ReadingMsg(sensorData))]
                   /\ successCount' = successCount + 1
                   /\ UNCHANGED <<failCount, dropped, faults>>
              ELSE /\ faults < MaxFaults
                   /\ faults' = faults + 1
                   /\ failCount' = failCount + 1
                   /\ dropped' = [dropped EXCEPT
                                    ![client] = @ \cup {Len(owed[client])}]
                   /\ UNCHANGED <<inbox, successCount>>
       ELSE UNCHANGED <<inbox, successCount, failCount, dropped, faults>>
    /\ todo' = Tail(todo)
    /\ UNCHANGED <<pc, storeVars, wsServer, connectedClients, readyState,
                   csvLog, sensorData, res, addCalls, arrived, owed,
                   inboxAtEntry>>
    /\ UNCHANGED held

\* sensor.service.js:238-243: the loop is over, broadcastToClients returns
ForEachDone ==
    /\ pc = "forEach"
    /\ todo = <<>>
    /\ pc' = After("broadcastToClients")
    /\ UNCHANGED <<storeVars, hubVars, csvLog, sensorData, loopVars, res,
                   histVars>>
    /\ UNCHANGED held

\* Mutant: the count of readings ever received is reported
ReturnTotal ==
    /\ pc = "return"
    /\ res' = Accepted(totalReadingsReceived)
    /\ pc' = After("return")
    /\ UNCHANGED <<storeVars, hubVars, csvLog, sensorData, loopVars, histVars,
                   held>>

\* sensor.service.js:87-94 and sensor.routes.js:54-58
Return ==
    /\ pc = "return"
    /\ res' = Accepted(Len(readings))
    /\ pc' = After("return")
    /\ UNCHANGED <<storeVars, hubVars, csvLog, sensorData, loopVars, histVars>>
    /\ UNCHANGED held

\* The response leaves the server; the callback is over
Respond ==
    /\ pc = "respond"
    /\ res' = NoRes
    /\ sensorData' = NoData
    /\ pc' = "idle"
    /\ inboxAtEntry' = [c \in Clients |-> <<>>]
    /\ UNCHANGED <<storeVars, hubVars, csvLog, loopVars, addCalls, arrived,
                   owed, dropped, faults>>
    /\ UNCHANGED held


----------------------------------------------------------------------------
(* Queries and reset *)

\* sensor.routes.js:82-95 with sensor.service.js:106-114
GetLatest ==
    /\ pc = "idle"
    /\ res' = IF getLatestReading(readings) = NoData
              THEN NotFound
              ELSE LatestOk(getLatestReading(readings))
    /\ pc' = "respond"
    /\ UNCHANGED <<storeVars, hubVars, csvLog, sensorData, loopVars, histVars>>
    /\ UNCHANGED held

\* sensor.routes.js:111-123 with sensor.service.js:121-124
GetAll ==
    /\ pc = "idle"
    /\ res' = AllOk(getAllReadings(readings))
    /\ pc' = "respond"
    /\ UNCHANGED <<storeVars, hubVars, csvLog, sensorData, loopVars, histVars>>
    /\ UNCHANGED held

\* data.store.js:108-115
GetStorageStats ==
    /\ pc = "idle"
    /\ res' = Stats(Len(readings), totalReadingsReceived)
    /\ pc' = "respond"
    /\ UNCHANGED <<storeVars, hubVars, csvLog, sensorData, loopVars, histVars>>
    /\ UNCHANGED held

\* Mutant: the reset also zeroes the counter
ClearReadingsResetsTotal ==
    /\ pc = "idle"
    /\ readings' = <<>>
    /\ arrived' = <<>>
    /\ totalReadingsReceived' = 0
    /\ UNCHANGED <<pc, initialized, hubVars, csvLog, sensorData, loopVars, res,
                   addCalls, owed, dropped, inboxAtEntry, faults>>
    /\ UNCHANGED held

\* Mutant: the reset also forgets when the store was initialized
ClearReadingsResetsInitialized ==
    /\ pc = "idle"
    /\ readings' = <<>>
    /\ arrived' = <<>>
    /\ initialized' = "null"
    /\ UNCHANGED <<pc, totalReadingsReceived, hubVars, csvLog, sensorData,
                   loopVars, res, addCalls, owed, dropped, inboxAtEntry,
                   faults, held>>

\* data.store.js:97-101
ClearReadings ==
    /\ pc = "idle"
    /\ readings' = <<>>
    /\ arrived' = <<>>
    /\ UNCHANGED <<pc, totalReadingsReceived, initialized, hubVars, csvLog,
                   sensorData, loopVars, res, addCalls, owed, dropped,
                   inboxAtEntry, faults>>
    /\ UNCHANGED held

----------------------------------------------------------------------------
(* WebSocket events: ws.server.js, sensor.service.js:160-203 *)

\* Mutant: the oldest member is taken out, whoever closed
RemoveHead(s, c) == IF s = <<>> THEN s ELSE Tail(s)

\* connectedClients.delete(ws)
Remove(s, c) == SelectSeq(s, LAMBDA x : x # c)

\* connectedClients.add(ws): a Set keeps insertion order and no duplicates
Add(s, c) == IF c \in SeqRange(s) THEN s ELSE Append(s, c)

\* Mutant: a new client is also sent the latest stored reading
ConnectionReplays(c) ==
    /\ pc = "idle"
    /\ wsServer
    /\ readyState[c] = "NEW"
    /\ \A d \in Clients : d < c => readyState[d] # "NEW"
    /\ connectedClients' = Add(connectedClients, c)
    /\ readyState' = [readyState EXCEPT ![c] = "OPEN"]
    /\ inbox' = [inbox EXCEPT ![c] =
          IF readings = <<>>
          THEN Append(@, WelcomeMsg(Len(connectedClients')))
          ELSE Append(Append(@, WelcomeMsg(Len(connectedClients'))),
                      ReadingMsg(getLatestReading(readings)))]
    /\ UNCHANGED <<pc, storeVars, wsServer, csvLog, sensorData, loopVars, res,
                   histVars>>
    /\ UNCHANGED held

\* Mutant: clientCount is read before the client is added
ConnectionCountsBefore(c) ==
    /\ pc = "idle"
    /\ wsServer
    /\ readyState[c] = "NEW"
    /\ \A d \in Clients : d < c => readyState[d] # "NEW"
    /\ connectedClients' = Add(connectedClients, c)
    /\ readyState' = [readyState EXCEPT ![c] = "OPEN"]
    /\ inbox' = [inbox EXCEPT ![c] = Append(@, WelcomeMsg(Len(connectedClients)))]
    /\ UNCHANGED <<pc, storeVars, wsServer, csvLog, sensorData, loopVars, res,
                   histVars, held>>

\* 'connection': the client is added and sent the welcome message.  ws.send
\* is outside any try: when it throws, the exception leaves the listener and
\* the process ends.
Connection(c) ==
    /\ pc = "idle"
    /\ wsServer
    /\ readyState[c] = "NEW"
    \* every ws object is new: the model numbers them in order of arrival
    /\ \A d \in Clients : d < c => readyState[d] # "NEW"
    /\ connectedClients' = Add(connectedClients, c)
    /\ readyState' = [readyState EXCEPT ![c] = "OPEN"]
    /\ \E sent \in BOOLEAN :
          IF sent
          THEN /\ inbox' = [inbox EXCEPT
                   ![c] = Append(@, WelcomeMsg(Len(connectedClients')))]
               /\ pc' = "idle"
          ELSE /\ pc' = "crashed"
               /\ UNCHANGED inbox
    /\ UNCHANGED <<storeVars, wsServer, csvLog, sensorData, loopVars, res,
                   histVars>>
    /\ UNCHANGED held

Pongs ==
    SumOver(Clients,
            [c \in Clients |-> Len(SelectSeq(inbox[c], LAMBDA m : m.type = "pong"))])

\* Mutant: the pong goes to every open client
MessagePingAll(c) ==
    /\ pc = "idle"
    /\ readyState[c] = "OPEN"
    /\ Pongs < MaxPongs
    /\ inbox' = [d \in Clients |->
                   IF readyState[d] = "OPEN" THEN Append(inbox[d], PongMsg)
                                             ELSE inbox[d]]
    /\ UNCHANGED <<pc, storeVars, wsServer, connectedClients, readyState,
                   csvLog, sensorData, loopVars, res, histVars, held>>

\* 'message': a ping is answered with a pong; the send is inside a try, and
\* a send that throws is caught and logged
MessagePing(c) ==
    /\ pc = "idle"
    /\ readyState[c] = "OPEN"
    /\ Pongs < MaxPongs
    /\ \E sent \in BOOLEAN :
          IF sent
          THEN /\ inbox' = [inbox EXCEPT ![c] = Append(@, PongMsg)]
               /\ UNCHANGED faults
          ELSE /\ faults < MaxFaults
               /\ faults' = faults + 1
               /\ UNCHANGED inbox
    /\ UNCHANGED <<pc, storeVars, wsServer, connectedClients, readyState,
                   csvLog, sensorData, loopVars, res, addCalls, arrived, owed,
                   dropped, inboxAtEntry>>
    /\ UNCHANGED held

\* 'message': any other message, or one that does not parse, is only logged
MessageOther(c) ==
    /\ pc = "idle"
    /\ readyState[c] = "OPEN"
    /\ UNCHANGED vars

\* The socket starts closing (close frame, network error): the ws library
\* moves readyState off OPEN before it emits 'close'
StartClosing(c) ==
    /\ pc = "idle"
    /\ readyState[c] = "OPEN"
    /\ readyState' = [readyState EXCEPT ![c] = "CLOSING"]
    /\ UNCHANGED <<pc, storeVars, wsServer, connectedClients, inbox, csvLog,
                   sensorData, loopVars, res, histVars>>
    /\ UNCHANGED held

\* 'close': connectedClients.delete(ws)
Close(c) ==
    /\ pc = "idle"
    /\ readyState[c] \in {"OPEN", "CLOSING"}
    /\ readyState' = [readyState EXCEPT ![c] = "CLOSED"]
    /\ connectedClients' = Remove(connectedClients, c)
    /\ UNCHANGED <<pc, storeVars, wsServer, inbox, csvLog, sensorData,
                   loopVars, res, histVars>>
    /\ UNCHANGED held

----------------------------------------------------------------------------

Next ==
    \/ InitializeStorage
    \/ SetupWebSocket
    \/ \E body \in Bodies : PostDataReject(body)
    \/ PostDataThrows
    \/ \E body \in Bodies : PostDataAccept(body)
    \/ Stamp
    \/ AddReadingPush
    \/ AddReadingShift
    \/ AppendToCSVLog
    \/ BroadcastToClients
    \/ ForEachClient
    \/ ForEachDone
    \/ Return
    \/ Respond
    \/ GetLatest
    \/ GetAll
    \/ GetStorageStats
    \/ ClearReadings
    \/ \E c \in Clients : Connection(c)
    \/ \E c \in Clients : MessagePing(c)
    \/ \E c \in Clients : MessageOther(c)
    \/ \E c \in Clients : StartClosing(c)
    \/ \E c \in Clients : Close(c)

Spec == Init /\ [][Next]_vars

\* The statements of the POST /data callback once handleSensorData is
\* entered: synchronous code, which the JavaScript engine runs to its end
HandlerStep ==
    \/ Stamp
    \/ AddReadingPush
    \/ AddReadingShift
    \/ AppendToCSVLog
    \/ BroadcastToClients
    \/ ForEachClient
    \/ ForEachDone
    \/ Return
    \/ Respond

\* The ingestion path, the life of the clients and the reset.  Queries,
\* rejected requests and the keep-alive run between callbacks only and
\* change nothing the handler's progress depends on; they are left out here.
NextIngest ==
    \/ InitializeStorage
    \/ SetupWebSocket
    \/ \E body \in Bodies : PostDataAccept(body)
    \/ HandlerStep
    \/ \E c \in Clients : Connection(c)
    \/ \E c \in Clients : StartClosing(c)
    \/ \E c \in Clients : Close(c)
    \/ ClearReadings

\* The ingestion path with a callback that has started running on to its end
SpecFair == Init /\ [][NextIngest]_vars /\ WF_vars(HandlerStep)


----------------------------------------------------------------------------
(* The store as a module: data.store.js called by code in the same process *)

\* The value a caller writes into a reading it was handed
CallerPpb == 2

\* The objects behind the elements of dataStore.readings: the array always
\* holds the objects of the last addReading calls, so element i is the
\* object stored by call number total - length + i
ObjectIds(rs, total) == [i \in 1..Len(rs) |-> total - Len(rs) + i]

\* The readings a caller passes to addReading
Readings == {Stamped(b) : b \in {x \in Bodies : Len(Missing(x)) = 0}}

\* The store after initializeStorage(), no request being served
InitCaller ==
    /\ pc = "caller"
    /\ initialized = NOW
    /\ readings = <<>>
    /\ totalReadingsReceived = 0
    /\ wsServer = FALSE
    /\ connectedClients = <<>>
    /\ readyState = [c \in Clients |-> "NEW"]
    /\ inbox = [c \in Clients |-> <<>>]
    /\ csvLog = <<>>
    /\ sensorData = NoData
    /\ todo = <<>>
    /\ successCount = 0
    /\ failCount = 0
    /\ res = NoRes
    /\ addCalls = 0
    /\ arrived = <<>>
    /\ owed = [c \in Clients |-> <<>>]
    /\ dropped = [c \in Clients |-> {}]
    /\ inboxAtEntry = [c \in Clients |-> <<>>]
    /\ faults = 0
    /\ held = NoHeld

\* What no call into data.store.js touches
outsideStore == <<pc, initialized, hubVars, csvLog, sensorData, loopVars, res,
                  owed, dropped, inboxAtEntry, faults>>

\* data.store.js:35-45 addReading(reading), as one call
CallerAddReading(reading) ==
    /\ pc = "caller"
    /\ totalReadingsReceived < MaxAppends
    /\ readings' = Shift(Push(readings, reading))
    /\ totalReadingsReceived' = totalReadingsReceived + 1
    /\ addCalls' = addCalls + 1
    /\ arrived' = Append(arrived, reading)
    /\ UNCHANGED <<outsideStore, held>>

\* data.store.js:97-101 clearReadings(): dataStore.readings is a new array
CallerClearReadings ==
    /\ pc = "caller"
    /\ readings' = <<>>
    /\ arrived' = <<>>
    /\ UNCHANGED <<outsideStore, totalReadingsReceived, addCalls, held>>

\* data.store.js:61-63 getAllReadings(): the spread makes a new array whose
\* elements are the objects the store's array holds
CallerGetAllReadings ==
    /\ pc = "caller"
    /\ held' = [arr |-> getAllReadings(readings),
                ids |-> ObjectIds(readings, totalReadingsReceived),
                want |-> getAllReadings(readings)]
    /\ UNCHANGED <<outsideStore, readings, totalReadingsReceived, addCalls,
                   arrived>>

\* The caller changes the array it was handed: returned.pop()
CallerPops ==
    /\ pc = "caller"
    /\ held.arr # <<>>
    /\ held' = [arr |-> SubSeq(held.arr, 1, Len(held.arr) - 1),
                ids |-> SubSeq(held.ids, 1, Len(held.ids) - 1),
                want |-> SubSeq(held.want, 1, Len(held.want) - 1)]
    /\ UNCHANGED <<outsideStore, readings, totalReadingsReceived, addCalls,
                   arrived>>

\* The caller changes a reading of the array it was handed:
\* returned[j].ppb = CallerPpb.  The object is the one the store holds as
\* long as the store has not evicted or cleared it.
CallerWritesElement(j) ==
    /\ pc = "caller"
    /\ j \in 1..Len(held.arr)
    /\ held.arr[j].ppb # CallerPpb
    /\ held' = [held EXCEPT !.arr[j].ppb = CallerPpb,
                            !.want[j].ppb = CallerPpb]
    /\ readings' =
          [i \in 1..Len(readings) |->
              IF ObjectIds(readings, totalReadingsReceived)[i] = held.ids[j]
              THEN [readings[i] EXCEPT !.ppb = CallerPpb]
              ELSE readings[i]]
    /\ UNCHANGED <<outsideStore, totalReadingsReceived, addCalls, arrived>>

NextCaller ==
    \/ \E reading \in Readings : CallerAddReading(reading)
    \/ CallerClearReadings
    \/ CallerGetAllReadings
    \/ CallerPops
    \/ \E j \in 1..MAX_READINGS : CallerWritesElement(j)

SpecCaller == InitCaller /\ [][NextCaller]_vars

----------------------------------------------------------------------------
(* The modules loaded by code in the same process that has not run the     *)
(* start-up of server.js: the store is not initialised and the WebSocket   *)
(* server is not set up when the exported functions and the routes are     *)
(* called                                                                  *)

\* The modules as loaded (data.store.js:11-17, ws.server.js wsServer = null):
\* nothing initialised, no call running
InitLoaded ==
    /\ pc = "idle"
    /\ initialized = "null"
    /\ readings = <<>>
    /\ totalReadingsReceived = 0
    /\ wsServer = FALSE
    /\ connectedClients = <<>>
    /\ readyState = [c \in Clients |-> "NEW"]
    /\ inbox = [c \in Clients |-> <<>>]
    /\ csvLog = <<>>
    /\ sensorData = NoData
    /\ todo = <<>>
    /\ successCount = 0
    /\ failCount = 0
    /\ res = NoRes
    /\ addCalls = 0
    /\ arrived = <<>>
    /\ owed = [c \in Clients |-> <<>>]
    /\ dropped = [c \in Clients |-> {}]
    /\ inboxAtEntry = [c \in Clients |-> <<>>]
    /\ faults = 0
    /\ held = NoHeld

\* data.store.js:22-25 initializeStorage(): only the metadata is written
DirectInitializeStorage ==
    /\ pc = "idle"
    /\ initialized = "null"
    /\ initialized' = NOW
    /\ UNCHANGED <<pc, readings, totalReadingsReceived, hubVars, csvLog,
                   sensorData, loopVars, res, histVars, held>>

\* sensor.service.js:70 handleSensorData(sensorData) called directly: the
\* function looks at no key but timestamp, so any object is taken
DirectHandleSensorData(body) ==
    /\ pc = "idle"
    /\ totalReadingsReceived < MaxAppends
    /\ sensorData' = body
    /\ pc' = handleSensorData[1]
    /\ inboxAtEntry' = inbox
    /\ UNCHANGED <<storeVars, hubVars, csvLog, loopVars, res, addCalls, arrived,
                   owed, dropped, faults, held>>

\* What the exported functions and the routes do when called in this state;
\* forEach is never entered, because broadcastToClients returns at once
NextLoaded ==
    \/ DirectInitializeStorage
    \/ \E body \in Bodies : DirectHandleSensorData(body)
    \/ \E body \in Bodies : PostDataReject(body)
    \/ \E body \in Bodies : PostDataAccept(body)
    \/ Stamp
    \/ AddReadingPush
    \/ AddReadingShift
    \/ AppendToCSVLog
    \/ BroadcastToClients
    \/ Return
    \/ Respond
    \/ GetLatest
    \/ GetAll

SpecLoaded == InitLoaded /\ [][NextLoaded]_vars

----------------------------------------------------------------------------
(* Properties *)

\* The last `n` elements of sequence s
LastN(s, n) == SubSeq(s, Len(s) - n + 1, Len(s))

\* C1: whenever the store can be observed (every position of the program
\* except between the push and the shift inside addReading, where no query
\* can run), the history holds at most MAX_READINGS readings, and so does
\* every answer a query has given.
C1_LengthWithinCapacity ==
    /\ pc # "shift" => Len(readings) <= MAX_READINGS
    /\ Len(res.all) <= MAX_READINGS
    /\ res.readingCount <= MAX_READINGS

\* C1 witness: a query answers with a full history after an overflow
C1_Witness ==
    /\ pc = "respond"
    /\ res.kind = "all"
    /\ Len(res.all) = MAX_READINGS
    /\ Len(arrived) > MAX_READINGS

\* C2: once more than MAX_READINGS readings have been added since the store
\* was last empty, the history is exactly the last MAX_READINGS of them, in
\* arrival order.
C2_KeepsMostRecent ==
    (pc # "shift" /\ Len(arrived) > MAX_READINGS)
        => readings = LastN(arrived, MAX_READINGS)

\* C2 witness: an overflow has happened and the retained readings differ, so
\* their order is visible
C2_Witness ==
    /\ pc = "idle"
    /\ Len(arrived) > MAX_READINGS
    /\ Len(readings) = MAX_READINGS
    /\ readings[1] # readings[2]
    /\ arrived[1] # arrived[Len(arrived)]

\* C3: while at most MAX_READINGS readings have been added to an empty store,
\* the history is exactly those readings in arrival order, GET /all answers
\* with them and GET /latest with the last of them.
C3_AllInArrivalOrder ==
    Len(arrived) <= MAX_READINGS =>
        /\ readings = arrived
        /\ getAllReadings(readings) = arrived
        /\ Len(arrived) > 0 => getLatestReading(readings) = arrived[Len(arrived)]
        /\ res.kind = "all" => res.all = arrived /\ res.readingCount = Len(arrived)
        /\ (res.kind = "latest" /\ Len(arrived) > 0)
               => res.status = 200 /\ res.latest = arrived[Len(arrived)]

\* C3 witness: GET /latest answers after two different readings were added
C3_Witness ==
    /\ pc = "respond"
    /\ res.kind = "latest"
    /\ Len(arrived) = 2
    /\ arrived[1] # arrived[2]
    /\ res.latest = arrived[2]

\* C4: totalReadingsReceived equals the number of addReading calls made since
\* the process started, whatever has been evicted or cleared since.
C4_TotalCountsAppends ==
    /\ totalReadingsReceived = addCalls
    /\ res.kind = "stats" => res.total = addCalls

\* C4 witness: after an eviction and a clear the counter is past the length
C4_Witness ==
    /\ pc = "respond"
    /\ res.kind = "stats"
    /\ res.total = MaxAppends
    /\ Len(arrived) < MAX_READINGS
    /\ res.readingCount < res.total


\* The messages client c has been sent since handleSensorData was entered
NewMessages(c) == SubSeq(inbox[c], Len(inboxAtEntry[c]) + 1, Len(inbox[c]))

\* The send of the reading being handled to live client c threw
SendThrew(c) == Len(owed[c]) \in dropped[c]

\* The POST handler has answered success for sensorData
PostSucceeded == pc = "respond" /\ res.kind = "post" /\ res.status = 200

\* C5: from the moment broadcastToClients starts its sends until the producer
\* is answered, the reading being handled is the tail of the history (so
\* getLatestReading returns it), and every message sent so far for it
\* carries that tail.
C5_AppendBeforeBroadcast ==
    (pc \in {"forEach", "return"} \/ PostSucceeded) =>
        /\ Len(readings) > 0
        /\ getLatestReading(readings) = sensorData
        /\ \A c \in Clients : \A i \in 1..Len(NewMessages(c)) :
               NewMessages(c)[i] = ReadingMsg(getLatestReading(readings))

\* C5 witness: a message for the second reading has been sent, and the
\* reading in front of it in the history is a different one
C5_Witness ==
    /\ pc = "forEach"
    /\ Len(readings) = 2
    /\ readings[1] # readings[2]
    /\ \E c \in Clients : NewMessages(c) = <<ReadingMsg(readings[2])>>

\* The required keys other than timestamp
Needed == {"sensor_sn", "ppb", "temperature", "humidity"}

\* What a rejected submission must leave alone
untouched == <<readings, totalReadingsReceived, initialized, csvLog, inbox,
               connectedClients, readyState, wsServer, addCalls>>

\* C6: a POST /data whose body lacks one of sensor_sn, ppb, temperature,
\* humidity is answered 400, and neither the handling of the request nor the
\* sending of the answer changes the history, the counters, the CSV log, or
\* any client's messages.
C6_RejectLeavesStateUnchanged ==
    [][ /\ (pc = "idle" /\ sensorData' # NoData
            /\ ~(Needed \subseteq sensorData'.has))
           => (pc' = "respond" /\ res'.kind = "post" /\ res'.status = 400
               /\ UNCHANGED untouched)
        /\ (pc = "respond" /\ res.status = 400)
           => (pc' = "idle" /\ UNCHANGED untouched) ]_vars

\* C6 witness: a body without humidity was rejected while readings are
\* stored and a client is connected and open
C6_Witness ==
    /\ pc = "respond"
    /\ res.status = 400
    /\ "humidity" \notin sensorData.has
    /\ "humidity" \in SeqRange(res.missing)
    /\ Len(readings) > 0
    /\ \E c \in Clients : IsLive(c)

\* C7: when broadcastToClients has returned, every registered open client
\* whose own send did not throw has been sent the reading, whatever happened
\* to the clients visited before it, and every POST whose body passed the
\* validation is answered 200.
C7_SendFailureIsolated ==
    /\ pc = "return" =>
          /\ todo = <<>>
          /\ \A c \in Clients : (IsLive(c) /\ ~SendThrew(c)) =>
                 /\ NewMessages(c) # <<>>
                 /\ inbox[c][Len(inbox[c])] = ReadingMsg(sensorData)
    /\ (pc = "respond" /\ res.kind = "post" /\ Len(Missing(sensorData)) = 0)
          => res.status = 200

\* C7 witness: the send to the first registered client threw and the client
\* registered after it was still sent the reading; the producer is answered
C7_Witness ==
    /\ PostSucceeded
    /\ Len(connectedClients) = 2
    /\ IsLive(connectedClients[1]) /\ SendThrew(connectedClients[1])
    /\ NewMessages(connectedClients[1]) = <<>>
    /\ IsLive(connectedClients[2])
    /\ NewMessages(connectedClients[2]) = <<ReadingMsg(sensorData)>>

\* C8 as stated: every registered open client is sent exactly one message
\* for the reading, every other client none.
C8_ExactlyOnePerLiveClient ==
    pc = "return" =>
        \A c \in Clients :
            NewMessages(c) = IF IsLive(c) THEN <<ReadingMsg(sensorData)>>
                                          ELSE <<>>

\* C8 amended: every registered open client is sent exactly one message for
\* the reading unless the send to it throws, and then none; every other
\* client is sent none; a client whose 'close' event has been handled is in
\* neither the live set nor the clients a broadcast still has to visit.
C8_ExactlyOneUnlessSendThrows ==
    /\ pc = "return" =>
          \A c \in Clients :
              NewMessages(c) = IF IsLive(c) /\ ~SendThrew(c)
                               THEN <<ReadingMsg(sensorData)>>
                               ELSE <<>>
    /\ \A c \in Clients : readyState[c] = "CLOSED" =>
          c \notin SeqRange(connectedClients) /\ c \notin SeqRange(todo)

\* C8 witness: one client got its one message for the reading; another had
\* disconnected before, after receiving an earlier reading, and got nothing;
\* a third case, registered but closing, is skipped as well
C8_Witness ==
    /\ pc = "return"
    /\ \E c, d \in Clients :
          /\ IsLive(c) /\ NewMessages(c) = <<ReadingMsg(sensorData)>>
          /\ readyState[d] \in {"CLOSED", "CLOSING"}
          /\ Len(owed[d]) > 0
          /\ NewMessages(d) = <<>>

\* The readings client c has been sent, in the order they were sent
Received(c) ==
    LET msgs == SelectSeq(inbox[c], LAMBDA m : m.type = "sensor_reading")
    IN  [i \in 1..Len(msgs) |-> msgs[i].data]

\* Sequence s without the elements at the indices in D
RECURSIVE DropAt(_, _)
DropAt(s, D) ==
    IF s = <<>> THEN <<>>
    ELSE LET n == Len(s)
             front == DropAt(SubSeq(s, 1, n - 1), D)
         IN  IF n \in D THEN front ELSE Append(front, s[n])

\* C9 as stated: between requests, each client has received exactly the
\* readings ingested while it was registered and open, in ingestion order.
C9_ReceivedAllWhileLive ==
    pc = "idle" => \A c \in Clients : Received(c) = owed[c]

\* C9 amended: between requests, each client has received exactly the
\* readings ingested while it was registered and open, less those whose send
\* to it threw, in ingestion order and with nothing from before it joined.
C9_ReceivedInIngestionOrder ==
    pc = "idle" => \A c \in Clients : Received(c) = DropAt(owed[c], dropped[c])

\* C9 witness: register A, ingest X, register B, ingest Y: A has [X, Y] and
\* B has [Y]
C9_Witness ==
    /\ pc = "idle"
    /\ \E a, b \in Clients :
          /\ a # b
          /\ Len(Received(a)) = 2
          /\ Received(a)[1] # Received(a)[2]
          /\ Received(b) = <<Received(a)[2]>>
          /\ readings = Received(a)

\* The claim's list of what is missing: the required keys other than
\* timestamp that the record lacks, in the route's order
MissingNeeded(d) ==
    SelectSeq(<<"sensor_sn", "ppb", "temperature", "humidity">>,
              LAMBDA f : f \notin d.has)

\* C10: a POST /data is rejected exactly when the record lacks one of the
\* required keys other than timestamp, and the missing list is exactly
\* those keys.
C10_MissingExcludesTimestamp ==
    (pc = "respond" /\ res.kind = "post") =>
        /\ res.status = 400 <=> Len(MissingNeeded(sensorData)) > 0
        /\ res.status = 400 => res.missing = MissingNeeded(sensorData)

\* C11 as stated: a POST /data whose body has sensor_sn, ppb, temperature and
\* humidity is answered 200 whether or not it has a timestamp, and the
\* reading then at the tail of the history carries a timestamp: the
\* producer's, or the ingestion time when the body had none.
C11_NoTimestampAccepted ==
    (pc = "respond" /\ res.kind = "post" /\ Needed \subseteq sensorData.has) =>
        /\ res.status = 200
        /\ "timestamp" \in sensorData.has
        /\ sensorData.timestamp # ""
        /\ getLatestReading(readings) = sensorData

\* C12: getLatestReading returns null exactly when no reading has been added
\* since the start or since the last clearReadings, and otherwise the reading
\* added last; GET /latest answers 404 in the first case and 200 with that
\* reading in the second.
C12_LatestEmptyIffNoReadings ==
    /\ (getLatestReading(readings) = NoData) <=> (arrived = <<>>)
    /\ arrived # <<>> => getLatestReading(readings) = arrived[Len(arrived)]
    /\ res.kind = "latest" =>
          IF arrived = <<>>
          THEN res.status = 404 /\ res.latest = NoData
          ELSE res.status = 200 /\ res.latest = arrived[Len(arrived)]

\* C12 witness: GET /latest answers 404 after readings were added and cleared
C12_Witness ==
    /\ pc = "respond"
    /\ res.kind = "latest"
    /\ res.status = 404
    /\ totalReadingsReceived > 0
    /\ readings = <<>>

Min(a, b) == IF a < b THEN a ELSE b

\* C13 as stated: whatever a caller does to the value getAllReadings returned,
\* the store still holds exactly the readings that were added, as they were
\* added (so later getAllReadings, getLatestReading and getStorageStats
\* answer as if the caller had done nothing), and whatever is added to or
\* cleared from the store afterwards, the returned array holds what it was
\* returned with, changed only by the caller itself.
C13_CopyIsIndependent ==
    /\ readings = LastN(arrived, Min(Len(arrived), MAX_READINGS))
    /\ totalReadingsReceived = addCalls
    /\ held.arr = held.want

\* C14: a clearReadings call that finds readings leaves the history empty
\* and changes neither totalReadingsReceived nor metadata.initialized; and
\* once initializeStorage has set metadata.initialized, no step of the
\* program (append, eviction, query, clear, broadcast) changes it.
C14_ClearKeepsCountersAndInitTime ==
    [][ /\ (arrived # <<>> /\ arrived' = <<>>)
           => /\ readings' = <<>>
              /\ totalReadingsReceived' = totalReadingsReceived
              /\ initialized' = initialized
        /\ initialized # "null" => initialized' = initialized ]_vars

\* C14 witness: the store was cleared after MaxAppends readings: it is empty,
\* the counter and the start time stand
C14_Witness ==
    /\ pc = "idle"
    /\ arrived = <<>>
    /\ readings = <<>>
    /\ totalReadingsReceived = MaxAppends
    /\ initialized = NOW

\* The messages of kind `connection` client c has been sent
Welcomes(c) == SelectSeq(inbox[c], LAMBDA m : m.type = "connection")

PongCount(box, c) == Len(SelectSeq(box[c], LAMBDA m : m.type = "pong"))

\* The 'message' handler ran for a ping in this step: between callbacks, a
\* pong was sent or the send of one threw
PingHandled ==
    /\ pc = "idle" /\ pc' = "idle"
    /\ \/ faults' # faults
       \/ \E c \in Clients : PongCount(inbox', c) # PongCount(inbox, c)

\* What the keep-alive exchange must leave alone
keepAliveFrame == <<connectedClients, readyState, wsServer, readings,
                    totalReadingsReceived, initialized, csvLog>>

C18_FailedSendCloses ==
    \A c \in Clients :
        /\ readyState[c] = "CLOSED" => c \notin SeqRange(connectedClients)
        /\ (pc = "idle" /\ dropped[c] # {}) =>
              /\ readyState[c] = "CLOSED"
              /\ c \notin SeqRange(connectedClients)

\* C19: the readingCount of a 200 answer to POST /data is the length of the
\* history after this reading's push and shift, which is the smaller of
\* MAX_READINGS and the number of readings added since the last clear, and
\* so is neither above MAX_READINGS nor above totalReadingsReceived.
C19_ReadingCountIsCurrentLength ==
    PostSucceeded =>
        /\ res.readingCount = Len(readings)
        /\ res.readingCount = Min(MAX_READINGS, Len(arrived))
        /\ res.readingCount <= MAX_READINGS
        /\ res.readingCount <= totalReadingsReceived
        /\ res.readingCount >= 1

\* C19 witness: the producer is told MAX_READINGS after an eviction, with
\* more readings received than are held
C19_Witness ==
    /\ PostSucceeded
    /\ res.readingCount = MAX_READINGS
    /\ Len(arrived) > MAX_READINGS
    /\ totalReadingsReceived > res.readingCount

\* C20: the CSV log is written by appendToCSVLog alone, which runs once for
\* every reading, right after addReading has stored it: the call either adds
\* the one line of that reading or fails, and in both cases leaves the
\* history alone and goes on to broadcastToClients; so whether or not the
\* write failed, the producer of a valid body is answered 200 with the
\* reading at the tail of the history and sent to every registered open
\* client whose own send did not throw.
C20_AuditFailureIsolated ==
    /\ [][ /\ pc # "appendToCSVLog" => csvLog' = csvLog
           /\ pc = "shift" => pc' = "appendToCSVLog"
           /\ pc' = "appendToCSVLog" => pc = "shift"
           /\ pc = "appendToCSVLog" =>
                 /\ \/ csvLog' = Append(csvLog, sensorData) /\ faults' = faults
                    \/ csvLog' = csvLog /\ faults' = faults + 1
                 /\ pc' = "broadcastToClients"
                 /\ UNCHANGED <<readings, totalReadingsReceived, sensorData,
                                inbox, connectedClients>> ]_vars
    /\ [](/\ Len(csvLog) <= addCalls
          /\ (pc = "respond" /\ res.kind = "post"
                /\ Len(Missing(sensorData)) = 0) =>
                /\ res.status = 200
                /\ getLatestReading(readings) = sensorData
                /\ \A c \in Clients : (IsLive(c) /\ ~SendThrew(c)) =>
                       NewMessages(c) = <<ReadingMsg(sensorData)>>)

\* C20 witness: the only write to the CSV log so far has failed; the reading
\* is stored, an open client has been sent it and the producer is answered
\* 200
C20_Witness ==
    /\ PostSucceeded
    /\ addCalls = 1
    /\ csvLog = <<>>
    /\ faults = 1
    /\ readings = <<sensorData>>
    /\ \E c \in Clients :
          IsLive(c) /\ NewMessages(c) = <<ReadingMsg(sensorData)>>

\* The reading of the submission being answered is the last one added
Stored == arrived # <<>> /\ arrived[Len(arrived)] = sensorData

\* No client has ever been sent the reading of the submission being answered
DeliveredNone ==
    \A c \in Clients : \A i \in 1..Len(inbox[c]) :
        inbox[c][i] # ReadingMsg(sensorData)

\* C21 as stated: when a POST /data is answered, either the reading was
\* stored, every registered open client was sent one sensor_reading message
\* for it and the answer is 200, or the reading was not stored, no client was
\* sent anything and the answer is not 200.
C21_StoredAndBroadcastOrNeither ==
    (pc = "respond" /\ res.kind = "post") =>
        \/ /\ Stored
           /\ \A c \in Clients :
                 IsLive(c) => NewMessages(c) = <<ReadingMsg(sensorData)>>
           /\ res.status = 200
        \/ /\ ~Stored
           /\ DeliveredNone
           /\ res.status # 200

\* C21 amended: when a POST /data is answered, either the reading was stored,
\* every registered open client whose send did not throw was sent one
\* sensor_reading message for it, every other client nothing, and the answer
\* is 200; or the reading was not stored, no client was sent anything and the
\* answer is not 200.
C21_StoredAndOfferedOrNeither ==
    (pc = "respond" /\ res.kind = "post") =>
        \/ /\ Stored
           /\ \A c \in Clients :
                 NewMessages(c) = IF IsLive(c) /\ ~SendThrew(c)
                                  THEN <<ReadingMsg(sensorData)>>
                                  ELSE <<>>
           /\ res.status = 200
        \/ /\ ~Stored
           /\ DeliveredNone
           /\ res.status # 200

\* C21 witness: a reading is stored, both of two registered open clients
\* were sent it, and the producer is answered 200, after an earlier reading
\* was stored as well
C21_Witness ==
    /\ PostSucceeded
    /\ Stored
    /\ Len(arrived) = 2
    /\ Len(connectedClients) = 2
    /\ \A c \in Clients :
          IsLive(c) /\ NewMessages(c) = <<ReadingMsg(sensorData)>>

\* C22: the live set and the readyState of its members change only between
\* callbacks, never while handleSensorData or the send loop is running; a
\* removal takes out exactly one member, one that was not closed before and
\* is closed after, and a closed client stays closed, so no client is removed
\* twice; and a broadcast that meets a member that is closing or closed
\* still visits every member and sends the reading to each open one whose
\* own send does not throw, and the request is never answered 500.
C22_CloseDoesNotDisturbBroadcast ==
    /\ [][ /\ pc # "idle" => UNCHANGED <<connectedClients, readyState>>
           /\ connectedClients' # connectedClients =>
                 \/ \E c \in Clients :
                       /\ readyState[c] = "NEW" /\ readyState'[c] = "OPEN"
                       /\ c \notin SeqRange(connectedClients)
                       /\ SeqRange(connectedClients')
                             = SeqRange(connectedClients) \cup {c}
                 \/ \E c \in SeqRange(connectedClients) :
                       /\ readyState[c] # "CLOSED" /\ readyState'[c] = "CLOSED"
                       /\ SeqRange(connectedClients')
                             = SeqRange(connectedClients) \ {c}
           /\ \A c \in Clients :
                 readyState[c] = "CLOSED" => readyState'[c] = "CLOSED" ]_vars
    /\ [](/\ pc = "return" =>
                /\ todo = <<>>
                /\ \A c \in Clients : (IsLive(c) /\ ~SendThrew(c)) =>
                       NewMessages(c) = <<ReadingMsg(sensorData)>>
          /\ (res.kind = "post" /\ sensorData # NoData)
                => res.status \in {200, 400})

\* C22 witness: the member the loop visited first had started closing and
\* its 'close' has not run yet; the member after it was sent the reading
C22_Witness ==
    /\ pc = "return"
    /\ Len(connectedClients) = 2
    /\ readyState[connectedClients[1]] = "CLOSING"
    /\ NewMessages(connectedClients[1]) = <<>>
    /\ IsLive(connectedClients[2])
    /\ NewMessages(connectedClients[2]) = <<ReadingMsg(sensorData)>>

\* C23: every POST /data whose body passed the validation goes on to store
\* the reading, to try the CSV write, to leave the send loop and to answer
\* the producer 200, after which the server is between callbacks again,
\* whatever the number and the state of the registered clients.
C23_AcceptedIngestionCompletes ==
    /\ (pc = "stamp") ~> (pc = "appendToCSVLog" /\ Stored)
    /\ (pc = "appendToCSVLog") ~> (pc = "forEach")
    /\ (pc = "forEach") ~> PostSucceeded
    /\ PostSucceeded ~> (pc = "idle")

\* C23 witness: the producer is answered although one registered client is
\* closing and the send to the other, open, threw
C23_Witness ==
    /\ PostSucceeded
    /\ \E c, d \in SeqRange(connectedClients) :
          /\ readyState[c] = "CLOSING"
          /\ IsLive(d) /\ SendThrew(d)

\* C24: an exception raised while a POST /data is handled is answered 500
\* and changes neither the history, the counters, the CSV log, the live set
\* nor any client's messages; sending that answer brings the server back
\* between callbacks with the same state, where every request is served as
\* before; and no step of a request ends the process (that happens only
\* inside the 'connection' listener).
C24_ExceptionAnsweredNotFatal ==
    [][ /\ (res'.status = 500 /\ res.status # 500) =>
              /\ pc = "idle" /\ pc' = "respond"
              /\ res'.kind = "post"
              /\ UNCHANGED untouched
        /\ (pc = "respond" /\ res.status = 500) =>
              /\ pc' = "idle"
              /\ UNCHANGED untouched
        /\ (pc' = "crashed" /\ pc # "crashed") =>
              \E c \in Clients :
                  readyState[c] = "NEW" /\ readyState'[c] = "OPEN" ]_vars

\* C24 witness: a request is being answered 500 while readings are stored
\* and a client is registered and open
C24_Witness ==
    /\ pc = "respond"
    /\ res.kind = "post"
    /\ res.status = 500
    /\ Len(readings) > 0
    /\ \E c \in Clients : IsLive(c) /\ Len(Received(c)) > 0

\* C25 as stated: as long as initializeStorage has not set
\* metadata.initialized, the store serves nothing: no reading is stored or
\* counted and no request is answered from it, neither with 200 nor with the
\* 404 of an empty store.
C25_UninitializedStoreRefuses ==
    initialized = "null" =>
        /\ readings = <<>>
        /\ totalReadingsReceived = 0
        /\ res.status \notin {200, 404}

\* C26 as stated: every reading in the history has the five keys timestamp,
\* sensor_sn, ppb, temperature and humidity, by whichever exported entry
\* point it was added.
C26_AllFieldsPresent ==
    \A i \in 1..Len(readings) : FieldNames \subseteq readings[i].has

\* The clients forEach has visited in the broadcast that is running
Visited == SeqRange(connectedClients) \ SeqRange(todo)

\* C27: during a broadcast and when it has ended, successCount is the number
\* of visited clients that were sent the reading, failCount the number of
\* visited open clients whose send threw (one each), and their sum the
\* number of visited clients whose readyState is OPEN; a visited client that
\* is not open is in neither count and has been sent nothing.  When the loop
\* is over every registered client has been visited, so the sum is the
\* number of registered open clients, and it differs from
\* connectedClients.size, the figure the log line divides by, by the number
\* of registered clients that are not open.
C27_CountsCoverOpenClients ==
    (wsServer /\ pc \in {"forEach", "return"}) =>
        LET open == {c \in Visited : readyState[c] = "OPEN"}
            sentTo == {c \in Visited : NewMessages(c) = <<ReadingMsg(sensorData)>>}
            threw == {c \in open : NewMessages(c) = <<>> /\ SendThrew(c)}
        IN  /\ successCount = Cardinality(sentTo)
            /\ failCount = Cardinality(threw)
            /\ sentTo \cap threw = {}
            /\ sentTo \cup threw = open
            /\ successCount + failCount = Cardinality(open)
            /\ \A c \in Visited \ open : NewMessages(c) = <<>>
            /\ pc = "return" =>
                  /\ Visited = SeqRange(connectedClients)
                  /\ successCount + failCount
                        + Cardinality({c \in SeqRange(connectedClients) :
                                           readyState[c] # "OPEN"})
                     = Len(connectedClients)

\* C27 witness: a broadcast over two registered clients has ended with one
\* counted and one skipped, or with one success and one failure
C27_Witness ==
    /\ pc = "return"
    /\ Len(connectedClients) = 2
    /\ successCount + failCount = 1
    /\ \E c \in SeqRange(connectedClients) : readyState[c] # "OPEN"

\* C28 as stated: a subscriber is never in the live set without the 'close'
\* listener that removes it, also when the welcome send threw: every member
\* of the live set is a client whose 'connection' listener ran to its end
\* (it was sent its welcome, after which the listeners are attached), and
\* no member is permanently closed.
C28_MembersAreRemovable ==
    \A c \in SeqRange(connectedClients) :
        /\ Len(Welcomes(c)) = 1
        /\ readyState[c] # "CLOSED"

\* C29: while setupWebSocket has not been called, an ingestion appends the
\* reading and increments totalReadingsReceived, writes the CSV line (unless
\* the write itself fails, which is caught), and its broadcastToClients
\* returns at once to handleSensorData without sending anything or touching
\* the live set; the ingestion is answered success with the reading as the
\* tail of the history, and no client is ever sent a message.
C29_IngestionWithoutHub ==
    /\ [][ ~wsServer =>
             /\ pc = "addReading" =>
                   /\ readings' = Append(readings, sensorData)
                   /\ totalReadingsReceived' = totalReadingsReceived + 1
             /\ pc = "appendToCSVLog" =>
                   \/ csvLog' = Append(csvLog, sensorData)
                   \/ csvLog' = csvLog /\ faults' = faults + 1
             /\ pc = "broadcastToClients" =>
                   /\ pc' = "return"
                   /\ UNCHANGED <<inbox, connectedClients, readyState, todo,
                                  successCount, failCount, res, readings,
                                  totalReadingsReceived, csvLog>>
             /\ pc = "return" =>
                   /\ pc' = "respond"
                   /\ res' = Accepted(Len(readings)) ]_vars
    /\ [](~wsServer =>
            /\ \A c \in Clients : inbox[c] = <<>>
            /\ connectedClients = <<>>
            /\ (pc = "return" \/ PostSucceeded) =>
                  /\ Stored
                  /\ getLatestReading(readings) = sensorData
                  /\ totalReadingsReceived = addCalls
                  /\ totalReadingsReceived > 0
                  /\ faults = 0 => /\ csvLog # <<>>
                                   /\ csvLog[Len(csvLog)] = sensorData
            /\ (res.kind = "post" /\ pc = "respond"
                  /\ Len(Missing(sensorData)) = 0) => res.status = 200)

\* C29 witness: with no WebSocket server, a complete reading has been
\* stored, counted and logged, and the producer is being answered success
C29_Witness ==
    /\ ~wsServer
    /\ PostSucceeded
    /\ FieldNames \subseteq sensorData.has
    /\ getLatestReading(readings) = sensorData
    /\ totalReadingsReceived = 2
    /\ Len(csvLog) = 2
    /\ csvLog[Len(csvLog)] = sensorData

\* C30: a submission whose timestamp key is present with a falsy value is
\* accepted by the route, and the first statement of handleSensorData
\* replaces that value with the ingestion time on the submitted object, all
\* other keys and values kept; a submission with a non-empty timestamp is
\* left as it is.  The object is not changed again while it is handled, so
\* the stored reading, the CSV line and every message broadcast for it are
\* that one object and carry the same timestamp, which is never falsy.
C30_FalsyTimestampReplaced ==
    /\ [][ /\ pc = "stamp" =>
                /\ sensorData'.has = sensorData.has \cup {"timestamp"}
                /\ sensorData'.ppb = sensorData.ppb
                /\ sensorData'.timestamp =
                      IF "timestamp" \in sensorData.has
                            /\ sensorData.timestamp = "T1"
                      THEN "T1" ELSE NOW
           /\ (pc \notin {"idle", "stamp", "respond"}) =>
                 sensorData' = sensorData ]_vars
    /\ [](/\ pc = "stamp" => Len(Missing(sensorData)) = 0
          /\ \A i \in 1..Len(readings) : readings[i].timestamp \in {NOW, "T1"}
          /\ \A i \in 1..Len(csvLog) : csvLog[i].timestamp \in {NOW, "T1"}
          /\ (pc \in {"forEach", "return"} \/ PostSucceeded) =>
                /\ sensorData.timestamp \in {NOW, "T1"}
                /\ getLatestReading(readings) = sensorData
                /\ csvLog # <<>> /\ faults = 0 =>
                      csvLog[Len(csvLog)] = sensorData
                /\ \A c \in Clients : \A i \in 1..Len(NewMessages(c)) :
                      NewMessages(c)[i] = ReadingMsg(sensorData))

\* C30 witness: a submission with a falsy timestamp was followed by one with
\* the producer's timestamp; the first is stored and logged with the
\* ingestion time, the second with "T1", and a client was sent both
C30_Witness ==
    /\ PostSucceeded
    /\ Len(readings) = 2
    /\ readings[1].timestamp = NOW
    /\ readings[2].timestamp = "T1"
    /\ csvLog = readings
    /\ \E c \in Clients : Received(c) = readings

============================================================================
